---- MODULE Spec2Model ----
(***************************************************************************)
(* Model of the block editor of src/src/App.jsx: the App component's       *)
(* state (pieces, history, future, mode, selection, saved structures, tool *)
(* state) and the Scene component's state (hoverPos, guideSize, lockedY),  *)
(* with one action per event handler.                                      *)
(*                                                                         *)
(* Numbers.  Lengths are fixed-point integers in thousandths of a world    *)
(* unit (1.0 is 1000, 0.25 is 250, 0.002 is 2).  Angles are integer counts *)
(* of quarter turns (the R/T/G keys add Math.PI / 2), so that              *)
(* Math.abs(Math.sin(a)) > 0.5 is "the count is odd".                      *)
(*                                                                         *)
(* JavaScript values.  null for hoverPos is the empty tuple, null for      *)
(* lockedY is the empty tuple and a locked height y is <<y>>, null for     *)
(* currentGroup is NoGroup.  A rotation or scale stored in a piece is a    *)
(* tagged value (Arr, Num, Undef) because loaded files may hold scalars or *)
(* nothing there.                                                          *)
(*                                                                         *)
(* React.  Every handler is one atomic action: the state updates it queues *)
(* are applied together, the component re-renders, and the effects of that *)
(* render run before the next event.  Handlers created during render read  *)
(* the current state.  The only handler that outlives a render is          *)
(* handleGlobalKeys, whose effect has the dependencies [selectedIds,       *)
(* appMode]: keysPieces is the value of pieces in the render that          *)
(* registered it.                                                          *)
(***************************************************************************)
EXTENDS Integers, Sequences, FiniteSets, TLC

VARIABLES
    pieces,        \* App: placed entities, in placement order
    history,       \* App: undo stack, oldest first
    future,        \* App: redo stack, next first
    appMode,       \* App: "BUILD" | "SELECT" | "VIEW"
    selectedIds,   \* App: selected ids, in click order
    savedGroups,   \* App: structure definitions
    currentGroup,  \* App: active prefab or NoGroup
    currentMat,    \* App: active material
    currentShape,  \* App: active shape
    rotation,      \* App: pending rotation, quarter turns about X, Y, Z
    currentScale,  \* App: pending scale
    hoverPos,      \* Scene: pending position or <<>>
    guideSize,     \* Scene: footprint of the placement guide
    lockedY,       \* Scene: <<y>> while the height lock is active, else <<>>
    keysPieces,    \* pieces as captured by the registered handleGlobalKeys
    lastOp,        \* ghost: the handler that ran last and what it did
    tracking,      \* ghost: "chain" keeps chain and undone, "run" keeps run, "none" neither
    chain,         \* ghost: collections that preceded the latest consecutive commits
    undone,        \* ghost: undo steps taken since the latest commit
    run,           \* ghost: consecutive commits since the last undo, redo or load
    lockY0,        \* ghost: <<y0>> from the activation of the lock to its release
    lastHit        \* ghost: the hit the pending position was resolved from, or NoHit

appVars   == <<pieces, history, future, appMode, selectedIds, savedGroups,
               currentGroup, currentMat, currentShape, rotation, currentScale>>
sceneVars == <<hoverPos, guideSize, lockedY>>
ghostVars == <<lastOp, tracking, chain, undone, run, lockY0, lastHit>>
vars      == <<appVars, sceneVars, keysPieces, ghostVars>>

----------------------------------------------------------------------------
\* Bounds of the model.

MaxDepth == 3      \* commits are explored while history is shorter; chain remembers as many
MaxIds == 30       \* size of the pool the fresh ids are drawn from
MaxTurns == 1      \* R/T/G are explored while the quarter turns add up to less

\* Program constants.

MaxHistory == 50   \* saveHistory: newHist.length > 50
Epsilon == 2       \* onMouseMove: calculatedY -= 0.002
RunCap == 60       \* ghost: run stops counting here

----------------------------------------------------------------------------
\* Sequence helpers.

Last(s) == s[Len(s)]
Front(s) == SubSeq(s, 1, Len(s) - 1)
Range(s) == {s[i] : i \in 1..Len(s)}
Min(a, b) == IF a < b THEN a ELSE b

RECURSIVE Filter(_, _)
\* Array.prototype.filter with the test "the id is in keep"
Filter(s, keep) ==
    IF s = <<>> THEN <<>>
    ELSE IF Head(s).id \in keep THEN <<Head(s)>> \o Filter(Tail(s), keep)
         ELSE Filter(Tail(s), keep)

RECURSIVE FilterIds(_, _)
\* selectedIds.filter(pid => pid !== id)
FilterIds(s, id) ==
    IF s = <<>> THEN <<>>
    ELSE IF Head(s) = id THEN FilterIds(Tail(s), id)
         ELSE <<Head(s)>> \o FilterIds(Tail(s), id)

IdsOf(coll) == {coll[i].id : i \in 1..Len(coll)}

----------------------------------------------------------------------------
\* JavaScript values of the rotation and scale fields of a piece.

Arr(v) == [t |-> "arr", n |-> 0, a |-> v]
Num(n) == [t |-> "num", n |-> n, a |-> <<>>]
Undef  == [t |-> "undef", n |-> 0, a |-> <<>>]
Null   == [t |-> "null", n |-> 0, a |-> <<>>]

\* a component that is no number: a non-empty string such as "abc" stored in
\* the field; the value stands for the string itself
NonNumeric == -999999
Str == [t |-> "str", n |-> NonNumeric, a |-> <<>>]

\* getRotation = (rot) => Array.isArray(rot) ? rot : [0, rot || 0, 0]
\* (rot || 0 is rot for a non-zero number and for a non-empty string, else 0)
getRotation(rot) ==
    IF rot.t = "arr" THEN rot.a
    ELSE <<0, (IF rot.t \in {"num", "str"} THEN rot.n ELSE 0), 0>>

\* getScale = (s) => Array.isArray(s) ? s : [1, 1, 1]
getScale(s) == IF s.t = "arr" THEN s.a ELSE <<1000, 1000, 1000>>

\* SHAPES: heightBase and defaultScale of each shape
SHAPES ==
    [cube   |-> [heightBase |-> 1000, defaultScale |-> <<1000, 1000, 1000>>],
     slab   |-> [heightBase |-> 1000, defaultScale |-> <<1000, 500, 1000>>],
     column |-> [heightBase |-> 1000, defaultScale |-> <<1000, 1000, 1000>>],
     slope  |-> [heightBase |-> 1000, defaultScale |-> <<1000, 1000, 1000>>]]

\* SHAPES[shape]?.heightBase || 1
heightBase(shape) ==
    IF shape \in DOMAIN SHAPES /\ SHAPES[shape].heightBase # 0
    THEN SHAPES[shape].heightBase ELSE 1000

\* null for currentGroup, and the structureData of a piece that is no group
NoGroup == [id |-> 0, name |-> "", blocks |-> <<>>]

\* The piece addBlock builds for a single block.
NewPiece(id, pos, mat, shape, rot, scale) ==
    [id |-> id, position |-> pos, type |-> mat, shape |-> shape,
     rotation |-> Arr(rot), scale |-> Arr(scale), isGroup |-> FALSE,
     structureData |-> NoGroup, name |-> ""]

\* The piece addBlock builds for the active prefab.
NewGroupPiece(id, pos, rot, group) ==
    [id |-> id, position |-> pos, type |-> "structure", shape |-> "undefined",
     rotation |-> Arr(rot), scale |-> Undef, isGroup |-> TRUE,
     structureData |-> group, name |-> group.name]

----------------------------------------------------------------------------
\* JavaScript numbers are IEEE 754 doubles.  Heights are kept in thousandths
\* where every operation the program applies is exact on them; where it
\* subtracts and adds arbitrary heights (the relative positions of a
\* structure) the double itself is kept: [hi, lo] stands for the value
\* (hi * 2^29 + lo) * 2^-54, which holds every double in [0.25, 8) and every
\* difference of two of them.

Limb == 2^29

Dbl(hi, lo) == [hi |-> hi, lo |-> lo]

\* the spacing of the doubles around (hi * 2^29 + lo) * 2^-54, in units of 2^-54
UlpOf(hi) ==
    IF hi < 2^24 THEN 1 ELSE IF hi < 2^25 THEN 2 ELSE IF hi < 2^26 THEN 4
    ELSE IF hi < 2^27 THEN 8 ELSE 16

\* round-to-nearest, ties to even, of the exact value
\* (hi * 2^29 + lo + r / 1000) * 2^-54 with 0 <= r < 1000
RoundDouble(hi, lo, r) ==
    LET u == UlpOf(hi)
        m == lo % u
        twice == 2000 * m + 2 * r
        up == twice > 1000 * u \/ (twice = 1000 * u /\ ((lo \div u) % 2 = 1))
        lo2 == IF up THEN lo - m + u ELSE lo - m
    IN  IF lo2 >= Limb THEN Dbl(hi + 1, lo2 - Limb) ELSE Dbl(hi, lo2)

\* the double a decimal literal of n thousandths denotes (0.25 <= n / 1000 < 8,
\* or a multiple of 0.25 below)
ToDouble(n) ==
    LET q0 == n \div 1000
        t1 == (n % 1000) * 2^18
        q1 == t1 \div 1000
        t2 == (t1 % 1000) * 2^18
        q2 == t2 \div 1000
        t3 == (t2 % 1000) * 2^18
        q3 == t3 \div 1000
    IN  RoundDouble(q0 * 2^25 + q1 * 2^7 + (q2 \div 2^11),
                    (q2 % 2^11) * 2^18 + q3,
                    t3 % 1000)

\* a - b for doubles a >= b
subDouble(a, b) ==
    IF a.lo >= b.lo THEN RoundDouble(a.hi - b.hi, a.lo - b.lo, 0)
    ELSE RoundDouble(a.hi - b.hi - 1, a.lo + Limb - b.lo, 0)

\* a + b
addDouble(a, b) ==
    IF a.lo + b.lo >= Limb THEN RoundDouble(a.hi + b.hi + 1, a.lo + b.lo - Limb, 0)
    ELSE RoundDouble(a.hi + b.hi, a.lo + b.lo, 0)

----------------------------------------------------------------------------
\* Fresh ids.  uuidv4() returns an id the program holds nowhere; the model
\* takes the smallest id of the pool that no stored collection, selection or
\* captured closure mentions.

IdsIn(stack) == UNION {IdsOf(stack[i]) : i \in 1..Len(stack)}

UsedIds ==
    IdsOf(pieces) \cup IdsIn(history) \cup IdsIn(future) \cup IdsOf(keysPieces)
        \cup Range(selectedIds) \cup IdsIn(chain)

HasFreshId == \E i \in 1..MaxIds : i \notin UsedIds

uuidv4 == CHOOSE i \in 1..MaxIds : i \notin UsedIds /\ \A j \in 1..(i - 1) : j \in UsedIds

GroupIdsIn(coll) == {coll[i].structureData.id : i \in 1..Len(coll)}

UsedGroupIds ==
    {savedGroups[i].id : i \in 1..Len(savedGroups)} \cup {currentGroup.id}
        \cup GroupIdsIn(pieces) \cup GroupIdsIn(keysPieces)
        \cup UNION {GroupIdsIn(history[i]) : i \in 1..Len(history)}
        \cup UNION {GroupIdsIn(future[i]) : i \in 1..Len(future)}
        \cup UNION {GroupIdsIn(chain[i]) : i \in 1..Len(chain)}

groupUuid == CHOOSE i \in 1..MaxIds : i \notin UsedGroupIds /\ \A j \in 1..(i - 1) : j \in UsedGroupIds

----------------------------------------------------------------------------
\* History Manager: saveHistory, undo, redo as functions of the state they read.

\* saveHistory's setHistory updater: push the pieces of the closure, drop the
\* oldest entry when the stack exceeds the cap.
pushHistoryNoCap(prev, snapshot) == Append(prev, snapshot)

pushHistoryDropNewest(prev, snapshot) ==
    LET newHist == Append(prev, snapshot)
    IN  IF Len(newHist) > MaxHistory THEN Front(newHist) ELSE newHist

pushHistory(prev, snapshot) ==
    LET newHist == Append(prev, snapshot)
    IN  IF Len(newHist) > MaxHistory THEN Tail(newHist) ELSE newHist

HistState(p, h, f) == [pieces |-> p, history |-> h, future |-> f]

\* undo: no-op on an empty undo stack, else current to the front of the redo
\* stack and the last undo entry becomes current.
undoBackOfFuture(st) ==
    IF Len(st.history) = 0 THEN st
    ELSE HistState(Last(st.history), Front(st.history), Append(st.future, st.pieces))

undo(st) ==
    IF Len(st.history) = 0 THEN st
    ELSE HistState(Last(st.history), Front(st.history), <<st.pieces>> \o st.future)

\* redo: no-op on an empty redo stack, else current onto the undo stack and
\* the first redo entry becomes current.
redoKeepsFuture(st) ==
    IF Len(st.future) = 0 THEN st
    ELSE HistState(st.future[1], Append(st.history, st.pieces), st.future)

redo(st) ==
    IF Len(st.future) = 0 THEN st
    ELSE HistState(st.future[1], Append(st.history, st.pieces), Tail(st.future))

----------------------------------------------------------------------------
\* Contact resolution: the body of Scene.onMouseMove.

\* Math.abs(Math.sin(a)) > 0.5 for a = k quarter turns
isRotated90(k) == k % 2 = 1

\* myHeight, myWidthX, myDepthZ of the pending object
EnvelopeNeverSwapped(group, shape, scale, rot) ==
    LET isRotated == isRotated90(rot[1]) \/ isRotated90(rot[3])
        src == IF group # NoGroup THEN getScale(group.blocks[1].scale) ELSE scale
        baseH == heightBase(IF group # NoGroup THEN group.blocks[1].shape ELSE shape)
    IN  [myHeight |-> IF isRotated THEN src[1] ELSE (baseH * src[2]) \div 1000,
         myWidthX |-> src[1],
         myDepthZ |-> src[3]]

EnvelopeTiltAboutXOnly(group, shape, scale, rot) ==
    LET isRotated == isRotated90(rot[1])
        src == IF group # NoGroup THEN getScale(group.blocks[1].scale) ELSE scale
        baseH == heightBase(IF group # NoGroup THEN group.blocks[1].shape ELSE shape)
        isRotY90 == group = NoGroup /\ isRotated90(rot[2])
    IN  [myHeight |-> IF isRotated THEN src[1] ELSE (baseH * src[2]) \div 1000,
         myWidthX |-> IF isRotY90 THEN src[3] ELSE src[1],
         myDepthZ |-> IF isRotY90 THEN src[1] ELSE src[3]]

Envelope(group, shape, scale, rot) ==
    LET isRotated == isRotated90(rot[1]) \/ isRotated90(rot[3])
    IN  IF group # NoGroup
        THEN LET pivot == group.blocks[1]
                 baseH == heightBase(pivot.shape)
                 pivotScale == getScale(pivot.scale)
             IN  [myHeight |-> IF isRotated THEN pivotScale[1]
                               ELSE (baseH * pivotScale[2]) \div 1000,
                  myWidthX |-> pivotScale[1],
                  myDepthZ |-> pivotScale[3]]
        ELSE LET baseH == heightBase(shape)
                 isRotY90 == isRotated90(rot[2])
             IN  [myHeight |-> IF isRotated THEN scale[1]
                               ELSE (baseH * scale[2]) \div 1000,
                  myWidthX |-> IF isRotY90 THEN scale[3] ELSE scale[1],
                  myDepthZ |-> IF isRotY90 THEN scale[1] ELSE scale[3]]

\* Math.round(ideal * 2) / 2 for ideal = point + normal * size / 2 (no lock)
\* or ideal = point (lock); the normal is in thousandths
finalXZIgnoringLock(point, normal, size, locked) ==
    ((2000 * point + normal * size + 500000) \div 1000000) * 500

finalXZ(point, normal, size, locked) ==
    IF locked THEN ((2 * point + 500) \div 1000) * 500
    ELSE ((2000 * point + normal * size + 500000) \div 1000000) * 500

\* twice contactY
contactY2CenterOnSide(hit) ==
    IF hit.ground THEN 0
    ELSE IF hit.normal[2] > 500 THEN 2 * hit.point[2]
    ELSE 2 * hit.tInfo.position[2]

contactY2(hit) ==
    IF hit.ground THEN 0
    ELSE IF hit.normal[2] > 500 THEN 2 * hit.point[2]
    ELSE IF hit.normal[2] < -500 THEN 2 * hit.tInfo.position[2]
    ELSE LET neighborHeight ==
                 IF hit.tInfo.isGroup THEN 1000
                 ELSE (heightBase(hit.tInfo.shape) * hit.tInfo.scale[2]) \div 1000
         IN  2 * hit.tInfo.position[2] - neighborHeight

\* finalY without lock: contactY + myHeight / 2, less 0.002 on top of an
\* entity, else Math.round(calculatedY * 4) / 4
calculatedYNeverRounded(hit, myHeight) ==
    LET y2 == contactY2(hit) + myHeight
    IN  IF ~hit.ground /\ hit.normal[2] > 500 THEN (y2 \div 2) - Epsilon
        ELSE y2 \div 2

calculatedYAlwaysRounded(hit, myHeight) ==
    LET y2 == contactY2(hit) + myHeight
    IN  ((4 * y2 + 1000) \div 2000) * 250

calculatedY(hit, myHeight) ==
    LET y2 == contactY2(hit) + myHeight
    IN  IF ~hit.ground /\ hit.normal[2] > 500 THEN (y2 \div 2) - Epsilon
        ELSE ((4 * y2 + 1000) \div 2000) * 250

finalYIgnoringLock(hit, myHeight, locked) == calculatedY(hit, myHeight)

finalY(hit, myHeight, locked) ==
    IF locked # <<>> THEN locked[1] ELSE calculatedY(hit, myHeight)

\* the hoverPos that onMouseMove sets
resolveContact(hit, env, locked) ==
    <<finalXZ(hit.point[1], hit.normal[1], env.myWidthX, locked # <<>>),
      finalY(hit, env.myHeight, locked),
      finalXZ(hit.point[3], hit.normal[3], env.myDepthZ, locked # <<>>)>>

\* the tInfo that Piece.handlePointerMove passes for the piece it belongs to
TargetInfo(data) ==
    [position |-> data.position,
     scale |-> IF data.isGroup THEN <<1000, 1000, 1000>> ELSE getScale(data.scale),
     shape |-> IF data.isGroup THEN "group" ELSE data.shape,
     isGroup |-> data.isGroup]

NoTarget == [position |-> <<>>, scale |-> <<>>, shape |-> "", isGroup |-> FALSE]

GroundHit(point, normal) ==
    [ground |-> TRUE, point |-> point, normal |-> normal, tInfo |-> NoTarget]

PieceHit(data, point, normal) ==
    [ground |-> FALSE, point |-> point, normal |-> normal, tInfo |-> TargetInfo(data)]

NoHit == [ground |-> FALSE, point |-> <<>>, normal |-> <<>>, tInfo |-> NoTarget]

\* which branch of the contactY computation a hit takes
hitKind(hit) ==
    IF hit.ground THEN "ground"
    ELSE IF hit.normal[2] > 500 THEN "top"
    ELSE IF hit.normal[2] < -500 THEN "bottom"
    ELSE "side"

----------------------------------------------------------------------------
\* Ghost bookkeeping (no handler reads it).

LastN(s, n) == IF Len(s) > n THEN SubSeq(s, Len(s) - n + 1, Len(s)) ELSE s

Op(name, arg, committed) ==
    [op |-> name, arg |-> arg, commit |-> committed]

\* y0 is taken when Shift goes down over a pending position with no lock on,
\* and dropped when Shift goes up or the mode leaves BUILD
GhostLockY0 ==
    lockY0' = IF lastOp'.op = "unlock" \/ appMode' # "BUILD" THEN <<>>
              ELSE IF lastOp'.op = "lock" /\ hoverPos # <<>> /\ lockY0 = <<>>
                   THEN <<hoverPos[2]>>
                   ELSE lockY0

\* every handler but onMouseMove: the hit stays while the pending position does
GhostLock ==
    /\ GhostLockY0
    /\ lastHit' = IF hoverPos' = <<>> THEN NoHit ELSE lastHit

\* the handler pushed a snapshot and changed the collection
GhostCommit(name, arg) ==
    /\ lastOp' = Op(name, arg, TRUE)
    /\ chain' = IF tracking # "chain" THEN chain
                ELSE IF undone > 0 THEN <<pieces>>
                ELSE LastN(Append(chain, pieces), MaxDepth)
    /\ undone' = 0
    /\ run' = IF tracking = "run" THEN Min(run + 1, RunCap) ELSE run
    /\ UNCHANGED tracking
    /\ GhostLock

\* the handler left the history alone
GhostNone(name, arg) ==
    /\ lastOp' = Op(name, arg, FALSE)
    /\ UNCHANGED <<tracking, chain, undone, run>>
    /\ GhostLock

\* onMouseMove: the hit is recorded when the handler resolves it
GhostHit(hit, resolved) ==
    /\ lastOp' = Op("onMouseMove", hitKind(hit), FALSE)
    /\ UNCHANGED <<tracking, chain, undone, run>>
    /\ GhostLockY0
    /\ lastHit' = IF hoverPos' = <<>> THEN NoHit
                  ELSE IF resolved THEN hit
                  ELSE lastHit

\* redo or load: the run of commits is over
GhostReset(name, arg) ==
    /\ lastOp' = Op(name, arg, FALSE)
    /\ chain' = <<>>
    /\ undone' = 0
    /\ run' = 0
    /\ UNCHANGED tracking
    /\ GhostLock

----------------------------------------------------------------------------
\* Effects that follow a render.

\* Scene: useEffect(() => { if (appMode !== 'BUILD') { setHoverPos(null);
\* setTargetInfo(null); setLockedY(null); } }, [appMode])
modeEffectKeepsLock(newMode) ==
    IF newMode # appMode /\ newMode # "BUILD"
    THEN hoverPos' = <<>> /\ UNCHANGED <<guideSize, lockedY>>
    ELSE UNCHANGED sceneVars

modeEffect(newMode) ==
    IF newMode # appMode /\ newMode # "BUILD"
    THEN hoverPos' = <<>> /\ lockedY' = <<>> /\ UNCHANGED guideSize
    ELSE UNCHANGED sceneVars

\* App: the effect that registers handleGlobalKeys runs again when appMode
\* changes or setSelectedIds stored a new array; it then captures the
\* deleteSelection, saveHistory and pieces of that render.
keysEffect(newMode, selectionSet, newPieces) ==
    keysPieces' = IF newMode # appMode \/ selectionSet THEN newPieces ELSE keysPieces

\* saveHistory as created in a render whose pieces were closurePieces
saveHistoryKeepsFuture(closurePieces) ==
    /\ history' = pushHistory(history, closurePieces)
    /\ UNCHANGED future

saveHistory(closurePieces) ==
    /\ history' = pushHistory(history, closurePieces)
    /\ future' = <<>>

toolVars == <<currentGroup, currentMat, currentShape, rotation, currentScale>>

----------------------------------------------------------------------------
\* Scene handlers.

\* onMouseMove(e, tInfo), reached from the ground mesh and, through
\* Piece.handlePointerMove (which tests appMode itself), from a piece.  With an
\* active prefab that has no blocks, pivot.shape throws before any set call.
onMouseMove(hit) ==
    /\ IF appMode # "BUILD" \/ (currentGroup # NoGroup /\ currentGroup.blocks = <<>>)
       THEN UNCHANGED sceneVars
       ELSE LET env == Envelope(currentGroup, currentShape, currentScale, rotation)
            IN  /\ guideSize' = [x |-> env.myWidthX, z |-> env.myDepthZ]
                /\ hoverPos' = resolveContact(hit, env, lockedY)
                /\ UNCHANGED lockedY
    /\ UNCHANGED <<appVars, keysPieces>>
    /\ GhostHit(hit, appMode = "BUILD"
                        /\ ~(currentGroup # NoGroup /\ currentGroup.blocks = <<>>))

\* the piece addBlock appends
pendingPiece ==
    IF currentGroup # NoGroup
    THEN NewGroupPiece(uuidv4, hoverPos, rotation, currentGroup)
    ELSE NewPiece(uuidv4, hoverPos, currentMat, currentShape, rotation, currentScale)

\* addBlock
addBlock(arg) ==
    IF hoverPos = <<>> \/ appMode # "BUILD"
    THEN UNCHANGED <<appVars, sceneVars, keysPieces>> /\ GhostNone("addBlock", arg)
    ELSE /\ saveHistory(pieces)
         /\ pieces' = Append(pieces, pendingPiece)
         /\ UNCHANGED <<appMode, selectedIds, savedGroups, toolVars, sceneVars, keysPieces>>
         /\ GhostCommit("addBlock", arg)

\* the ground mesh's onClick; dragged is e.delta > 2
ClickGround(dragged, button) ==
    IF appMode = "SELECT"
    THEN /\ selectedIds' = <<>>
         /\ keysEffect(appMode, TRUE, pieces)
         /\ UNCHANGED <<pieces, history, future, appMode, savedGroups, toolVars, sceneVars>>
         /\ GhostNone("clearSelection", "ground")
    ELSE IF ~dragged /\ appMode = "BUILD" /\ button = 0
    THEN addBlock("ground")
    ELSE UNCHANGED <<appVars, sceneVars, keysPieces>> /\ GhostNone("click", "ground")

\* handleSelect
handleSelect(id) ==
    /\ selectedIds' = IF id \in Range(selectedIds) THEN FilterIds(selectedIds, id)
                      ELSE Append(selectedIds, id)
    /\ keysEffect(appMode, TRUE, pieces)
    /\ UNCHANGED <<pieces, history, future, appMode, savedGroups, toolVars, sceneVars>>
    /\ GhostNone("handleSelect", "piece")

\* the onRemove that Scene passes to each Piece
onRemove(id) ==
    /\ saveHistory(pieces)
    /\ pieces' = Filter(pieces, IdsOf(pieces) \ {id})
    /\ UNCHANGED <<appMode, selectedIds, savedGroups, toolVars, sceneVars, keysPieces>>
    /\ GhostCommit("onRemove", "piece")

\* handleGrabBlock
handleGrabBlock(blockData) ==
    /\ saveHistory(pieces)
    /\ pieces' = Filter(pieces, IdsOf(pieces) \ {blockData.id})
    /\ rotation' = getRotation(blockData.rotation)
    /\ IF blockData.isGroup
       THEN /\ currentGroup' = blockData.structureData
            /\ UNCHANGED <<currentMat, currentShape, currentScale>>
       ELSE /\ currentMat' = blockData.type
            /\ currentShape' = IF blockData.shape \in {"", "undefined"} THEN "cube"
                               ELSE blockData.shape
            /\ currentScale' = getScale(blockData.scale)
            /\ currentGroup' = NoGroup
    /\ appMode' = "BUILD"
    /\ modeEffect("BUILD")
    /\ keysEffect("BUILD", FALSE, pieces')
    /\ UNCHANGED <<selectedIds, savedGroups>>
    /\ GhostCommit("handleGrabBlock", "piece")

\* Piece.handleInteraction on pieces[i]
ClickPieceAnyMode(i, dragged, altKey, ctrlKey, button) ==
    IF dragged
    THEN UNCHANGED <<appVars, sceneVars, keysPieces>> /\ GhostNone("click", "piece")
    ELSE IF appMode = "SELECT" /\ ~altKey /\ ~ctrlKey THEN handleSelect(pieces[i].id)
    ELSE IF altKey THEN onRemove(pieces[i].id)
    ELSE IF ctrlKey THEN handleGrabBlock(pieces[i])
    ELSE IF button = 0 THEN addBlock("piece")
    ELSE UNCHANGED <<appVars, sceneVars, keysPieces>> /\ GhostNone("click", "piece")

ClickPiece(i, dragged, altKey, ctrlKey, button) ==
    IF dragged
    THEN UNCHANGED <<appVars, sceneVars, keysPieces>> /\ GhostNone("click", "piece")
    ELSE IF appMode = "SELECT" THEN handleSelect(pieces[i].id)
    ELSE IF appMode = "BUILD" /\ altKey THEN onRemove(pieces[i].id)
    ELSE IF appMode = "BUILD" /\ ctrlKey THEN handleGrabBlock(pieces[i])
    ELSE IF appMode = "BUILD" /\ button = 0 THEN addBlock("piece")
    ELSE UNCHANGED <<appVars, sceneVars, keysPieces>> /\ GhostNone("click", "piece")

\* Scene.handleInput for r, t, g: a quarter turn about Y, X, Z
KeyRotate(axis) ==
    /\ rotation' = [rotation EXCEPT ![axis] = @ + 1]
    /\ UNCHANGED <<pieces, history, future, appMode, selectedIds, savedGroups,
                   currentGroup, currentMat, currentShape, currentScale>>
    /\ UNCHANGED <<sceneVars, keysPieces>>
    /\ GhostNone("rotate", "key")

\* Scene.handleInput for Shift: lock at the pending height, if there is one
ShiftDownWithoutPending ==
    /\ lockedY' = IF hoverPos # <<>> THEN <<hoverPos[2]>> ELSE <<0>>
    /\ UNCHANGED <<appVars, hoverPos, guideSize, keysPieces>>
    /\ GhostNone("lock", "key")

ShiftDown ==
    /\ lockedY' = IF hoverPos # <<>> THEN <<hoverPos[2]>> ELSE lockedY
    /\ UNCHANGED <<appVars, hoverPos, guideSize, keysPieces>>
    /\ GhostNone("lock", "key")

\* Scene.handleKeyUp for Shift
ShiftUp ==
    /\ lockedY' = <<>>
    /\ UNCHANGED <<appVars, hoverPos, guideSize, keysPieces>>
    /\ GhostNone("unlock", "key")

----------------------------------------------------------------------------
\* App handlers.

\* setAppMode(mode) from the mode buttons and the c and s keys; Escape also
\* drops the active prefab
SetMode(mode, escape) ==
    /\ appMode' = mode
    /\ currentGroup' = IF escape THEN NoGroup ELSE currentGroup
    /\ modeEffect(mode)
    /\ keysEffect(mode, FALSE, pieces)
    /\ UNCHANGED <<pieces, history, future, selectedIds, savedGroups,
                   currentMat, currentShape, rotation, currentScale>>
    /\ GhostNone("setAppMode", mode)

\* deleteSelection as created in a render whose pieces were closurePieces;
\* confirmed is the answer to confirm()
deleteSelection(closurePieces, confirmed, arg) ==
    IF selectedIds = <<>> \/ ~confirmed
    THEN UNCHANGED <<appVars, sceneVars, keysPieces>> /\ GhostNone("deleteSelection", arg)
    ELSE /\ saveHistory(closurePieces)
         /\ pieces' = Filter(pieces, IdsOf(pieces) \ Range(selectedIds))
         /\ selectedIds' = <<>>
         /\ keysEffect(appMode, TRUE, pieces')
         /\ UNCHANGED <<appMode, savedGroups, toolVars, sceneVars>>
         /\ GhostCommit("deleteSelection", arg)

\* handleGlobalKeys for Delete and Backspace: the deleteSelection of the render
\* that registered the handler
DeleteKey(confirmed) == deleteSelection(keysPieces, confirmed, "key")

\* the Supprimer button, rendered in SELECT mode with a selection
DeleteButton(confirmed) ==
    /\ appMode = "SELECT"
    /\ selectedIds # <<>>
    /\ deleteSelection(pieces, confirmed, "button")

RECURSIVE InsertByY(_, _)
InsertByY(sorted, p) ==
    IF sorted = <<>> THEN <<p>>
    ELSE IF Head(sorted).position[2] <= p.position[2]
         THEN <<Head(sorted)>> \o InsertByY(Tail(sorted), p)
         ELSE <<p>> \o sorted

RECURSIVE SortByY(_)
\* selectedPieces.sort((a, b) => a.position[1] - b.position[1]), a stable sort
SortByY(s) == IF s = <<>> THEN <<>> ELSE InsertByY(SortByY(Front(s)), Last(s))

\* blocksData of createGroup; relPosY is relPos[1] as the double the
\* subtraction yields (x and z are multiples of 0.5, where it is exact)
blocksData(sorted) ==
    [k \in 1..Len(sorted) |->
        [type |-> sorted[k].type, shape |-> sorted[k].shape,
         rotation |-> sorted[k].rotation, scale |-> sorted[k].scale,
         relPos |-> <<sorted[k].position[1] - sorted[1].position[1],
                      sorted[k].position[2] - sorted[1].position[2],
                      sorted[k].position[3] - sorted[1].position[3]>>,
         relPosY |-> subDouble(ToDouble(sorted[k].position[2]),
                               ToDouble(sorted[1].position[2]))]]

\* Piece, for a placed group: where <group position={data.position}> with
\* <group position={block.relPos}> inside puts sub-block idx
subBlockWorld(data, idx) ==
    LET block == data.structureData.blocks[idx]
    IN  [x |-> data.position[1] + block.relPos[1],
         y |-> addDouble(ToDouble(data.position[2]), block.relPosY),
         z |-> data.position[3] + block.relPos[3]]

\* createGroup, from the button rendered in SELECT mode with a selection; name
\* is the answer to prompt(), "" when cancelled or left empty
createGroupNestsGroups(name) ==
    /\ appMode = "SELECT"
    /\ selectedIds # <<>>
    /\ LET selectedPieces == Filter(pieces, Range(selectedIds))
           hasGroups == FALSE
       IN  IF name = "" \/ hasGroups
           THEN UNCHANGED <<appVars, sceneVars, keysPieces>> /\ GhostNone("createGroup", name)
           ELSE /\ saveHistory(pieces)
                /\ savedGroups' = Append(savedGroups,
                        [id |-> groupUuid, name |-> name,
                         blocks |-> blocksData(SortByY(selectedPieces))])
                /\ pieces' = Filter(pieces, IdsOf(pieces) \ Range(selectedIds))
                /\ selectedIds' = <<>>
                /\ appMode' = "BUILD"
                /\ modeEffect("BUILD")
                /\ keysEffect("BUILD", TRUE, pieces')
                /\ UNCHANGED toolVars
                /\ GhostCommit("createGroup", name)

createGroupInClickOrder(name) ==
    /\ appMode = "SELECT"
    /\ selectedIds # <<>>
    /\ LET selectedPieces ==
               [k \in 1..Len(selectedIds) |->
                   CHOOSE p \in Range(pieces) \cup {NewPiece(0, <<0, 0, 0>>, "", "", <<0, 0, 0>>, <<0, 0, 0>>)} :
                       IF selectedIds[k] \in IdsOf(pieces) THEN p.id = selectedIds[k]
                       ELSE p.id = 0]
           hasGroups == \E k \in 1..Len(selectedPieces) : selectedPieces[k].isGroup
       IN  IF name = "" \/ hasGroups
           THEN UNCHANGED <<appVars, sceneVars, keysPieces>> /\ GhostNone("createGroup", name)
           ELSE /\ saveHistory(pieces)
                /\ savedGroups' = Append(savedGroups,
                        [id |-> groupUuid, name |-> name,
                         blocks |-> blocksData(SortByY(selectedPieces))])
                /\ pieces' = Filter(pieces, IdsOf(pieces) \ Range(selectedIds))
                /\ selectedIds' = <<>>
                /\ appMode' = "BUILD"
                /\ modeEffect("BUILD")
                /\ keysEffect("BUILD", TRUE, pieces')
                /\ UNCHANGED toolVars
                /\ GhostCommit("createGroup", name)

createGroupKeepsPieces(name) ==
    /\ appMode = "SELECT"
    /\ selectedIds # <<>>
    /\ LET selectedPieces == Filter(pieces, Range(selectedIds))
           hasGroups == \E k \in 1..Len(selectedPieces) : selectedPieces[k].isGroup
       IN  IF name = "" \/ hasGroups
           THEN UNCHANGED <<appVars, sceneVars, keysPieces>> /\ GhostNone("createGroup", name)
           ELSE /\ saveHistory(pieces)
                /\ savedGroups' = Append(savedGroups,
                        [id |-> groupUuid, name |-> name,
                         blocks |-> blocksData(SortByY(selectedPieces))])
                /\ pieces' = pieces
                /\ selectedIds' = <<>>
                /\ appMode' = "BUILD"
                /\ modeEffect("BUILD")
                /\ keysEffect("BUILD", TRUE, pieces')
                /\ UNCHANGED toolVars
                /\ GhostCommit("createGroup", name)

createGroup(name) ==
    /\ appMode = "SELECT"
    /\ selectedIds # <<>>
    /\ LET selectedPieces == Filter(pieces, Range(selectedIds))
           hasGroups == \E k \in 1..Len(selectedPieces) : selectedPieces[k].isGroup
       IN  IF name = "" \/ hasGroups
           THEN UNCHANGED <<appVars, sceneVars, keysPieces>> /\ GhostNone("createGroup", name)
           ELSE /\ saveHistory(pieces)
                /\ savedGroups' = Append(savedGroups,
                        [id |-> groupUuid, name |-> name,
                         blocks |-> blocksData(SortByY(selectedPieces))])
                /\ pieces' = Filter(pieces, IdsOf(pieces) \ Range(selectedIds))
                /\ selectedIds' = <<>>
                /\ appMode' = "BUILD"
                /\ modeEffect("BUILD")
                /\ keysEffect("BUILD", TRUE, pieces')
                /\ UNCHANGED toolVars
                /\ GhostCommit("createGroup", name)

\* selectGroupToPlace, from the list rendered in BUILD mode
selectGroupToPlace(k) ==
    /\ appMode = "BUILD"
    /\ k \in 1..Len(savedGroups)
    /\ currentGroup' = savedGroups[k]
    /\ UNCHANGED <<pieces, history, future, appMode, selectedIds, savedGroups,
                   currentMat, currentShape, rotation, currentScale>>
    /\ UNCHANGED <<sceneVars, keysPieces>>
    /\ GhostNone("selectGroupToPlace", "button")

\* the (Annuler structure) button
CancelGroup ==
    /\ appMode = "BUILD"
    /\ savedGroups # <<>>
    /\ currentGroup # NoGroup
    /\ currentGroup' = NoGroup
    /\ UNCHANGED <<pieces, history, future, appMode, selectedIds, savedGroups,
                   currentMat, currentShape, rotation, currentScale>>
    /\ UNCHANGED <<sceneVars, keysPieces>>
    /\ GhostNone("cancelGroup", "button")

\* selectSimpleBlock(mat, shape) from the palette rendered in BUILD mode with no
\* active prefab; "" stands for the null argument
selectSimpleBlock(mat, shape) ==
    /\ appMode = "BUILD"
    /\ currentGroup = NoGroup
    /\ currentGroup' = NoGroup
    /\ currentMat' = IF mat # "" THEN mat ELSE currentMat
    /\ currentShape' = IF shape # "" THEN shape ELSE currentShape
    /\ currentScale' = IF shape # "" /\ shape \in DOMAIN SHAPES
                       THEN SHAPES[shape].defaultScale ELSE currentScale
    /\ UNCHANGED <<pieces, history, future, appMode, selectedIds, savedGroups, rotation>>
    /\ UNCHANGED <<sceneVars, keysPieces>>
    /\ GhostNone("selectSimpleBlock", "button")

\* updateScale(axis, val) from the dimension inputs
updateScale(axis, val) ==
    /\ appMode = "BUILD"
    /\ currentGroup = NoGroup
    /\ currentScale' = [currentScale EXCEPT ![axis] = val]
    /\ UNCHANGED <<pieces, history, future, appMode, selectedIds, savedGroups,
                   currentGroup, currentMat, currentShape, rotation>>
    /\ UNCHANGED <<sceneVars, keysPieces>>
    /\ GhostNone("updateScale", "input")

\* undo, from Ctrl+Z and the Undo button
Undo ==
    /\ LET st == undo(HistState(pieces, history, future))
       IN  pieces' = st.pieces /\ history' = st.history /\ future' = st.future
    /\ UNCHANGED <<appMode, selectedIds, savedGroups, toolVars, sceneVars, keysPieces>>
    /\ lastOp' = Op("undo", "", FALSE)
    /\ undone' = IF history = <<>> \/ tracking # "chain" THEN undone
                 ELSE Min(undone + 1, MaxDepth + 1)
    /\ run' = IF history = <<>> THEN run ELSE 0
    /\ UNCHANGED <<tracking, chain>>
    /\ GhostLock

\* redo, from Ctrl+Y, Ctrl+Shift+Z and the Redo button
Redo ==
    /\ LET st == redo(HistState(pieces, history, future))
       IN  pieces' = st.pieces /\ history' = st.history /\ future' = st.future
    /\ UNCHANGED <<appMode, selectedIds, savedGroups, toolVars, sceneVars, keysPieces>>
    /\ IF future = <<>> THEN GhostNone("redo", "") ELSE GhostReset("redo", "")

\* the clear-all button: if (confirm("Vider ?")) { saveHistory(); setPieces([]) }
ClearAll(confirmed) ==
    IF ~confirmed
    THEN UNCHANGED <<appVars, sceneVars, keysPieces>> /\ GhostNone("clearAll", "button")
    ELSE /\ saveHistory(pieces)
         /\ pieces' = <<>>
         /\ UNCHANGED <<appMode, selectedIds, savedGroups, toolVars, sceneVars, keysPieces>>
         /\ GhostCommit("clearAll", "button")

\* What reader.onload of loadTemple does with the text of the file.  kind is
\* what JSON.parse makes of it: "unparsable" (it throws), "null", "number",
\* "string", "array" (a bare array of pieces) or "object".
loadTempleKeepsHistory(data) ==
    /\ IF data.kind \in {"unparsable", "null"}
       THEN UNCHANGED <<pieces, savedGroups>>
       ELSE IF data.kind = "array"
       THEN pieces' = data.pieces /\ UNCHANGED savedGroups
       ELSE /\ pieces' = IF data.kind = "object" /\ data.hasPieces THEN data.pieces ELSE <<>>
            /\ savedGroups' = IF data.kind = "object" /\ data.hasGroups
                              THEN data.savedGroups ELSE <<>>
    /\ UNCHANGED <<history, future>>
    /\ UNCHANGED <<appMode, selectedIds, toolVars, sceneVars, keysPieces>>
    /\ IF data.kind \in {"unparsable", "null"} THEN GhostNone("load", data.name)
       ELSE GhostReset("load", data.name)

loadTemple(data) ==
    IF data.kind \in {"unparsable", "null"}
    THEN \* JSON.parse throws, or data.pieces throws on null, before any set call
         UNCHANGED <<appVars, sceneVars, keysPieces>> /\ GhostNone("load", data.name)
    ELSE /\ IF data.kind = "array"
            THEN pieces' = data.pieces /\ UNCHANGED savedGroups
            ELSE \* data.pieces and data.savedGroups are undefined on a number or string
                 /\ pieces' = IF data.kind = "object" /\ data.hasPieces
                              THEN data.pieces ELSE <<>>
                 /\ savedGroups' = IF data.kind = "object" /\ data.hasGroups
                                   THEN data.savedGroups ELSE <<>>
         /\ history' = <<>>
         /\ future' = <<>>
         /\ UNCHANGED <<appMode, selectedIds, toolVars, sceneVars, keysPieces>>
         /\ GhostReset("load", data.name)

----------------------------------------------------------------------------
\* The state after the first render; track switches the ghost chain on.

InitWith(track) ==
    /\ pieces = <<>>
    /\ history = <<>>
    /\ future = <<>>
    /\ appMode = "BUILD"
    /\ selectedIds = <<>>
    /\ savedGroups = <<>>
    /\ currentGroup = NoGroup
    /\ currentMat = "stone"
    /\ currentShape = "cube"
    /\ rotation = <<0, 0, 0>>
    /\ currentScale = <<1000, 1000, 1000>>
    /\ hoverPos = <<>>
    /\ guideSize = [x |-> 1000, z |-> 1000]
    /\ lockedY = <<>>
    /\ keysPieces = <<>>
    /\ lastOp = [op |-> "init", arg |-> "", commit |-> FALSE]
    /\ tracking = track
    /\ chain = <<>>
    /\ undone = 0
    /\ run = 0
    /\ lockY0 = <<>>
    /\ lastHit = NoHit

Init == InitWith("none")
InitChain == InitWith("chain")
InitRun == InitWith("run")

----------------------------------------------------------------------------
\* Inputs.

Modes == {"BUILD", "SELECT", "VIEW"}

\* face normals, in thousandths: the ground plane's own, up, down, sideways
GroundNormal == <<0, 0, 1000>>
UpNormal == <<0, 1000, 0>>
DownNormal == <<0, -1000, 0>>
SideNormal == <<1000, 0, 0>>

\* project files
FileBlock(id, pos, shape, rot, scale) ==
    [id |-> id, position |-> pos, type |-> "wood", shape |-> shape,
     rotation |-> rot, scale |-> scale, isGroup |-> FALSE,
     structureData |-> NoGroup, name |-> ""]

FileGroup ==
    [id |-> 1, name |-> "Portique",
     blocks |-> <<[type |-> "stone", shape |-> "cube", rotation |-> Arr(<<0, 0, 0>>),
                   scale |-> Arr(<<2000, 1000, 1000>>), relPos |-> <<0, 0, 0>>,
                   relPosY |-> ToDouble(0)],
                  [type |-> "stone", shape |-> "slab", rotation |-> Arr(<<0, 0, 0>>),
                   scale |-> Arr(<<1000, 500, 1000>>), relPos |-> <<0, 750, 0>>,
                   relPosY |-> ToDouble(750)]>>]

File(name, kind, hasPieces, ps, hasGroups, gs) ==
    [name |-> name, kind |-> kind, hasPieces |-> hasPieces, pieces |-> ps,
     hasGroups |-> hasGroups, savedGroups |-> gs]

LegacyFile ==
    File("legacy", "array", TRUE,
         <<FileBlock(1, <<0, 500, 0>>, "cube", Num(1), Undef)>>, FALSE, <<>>)
ProjectFile ==
    File("project", "object", TRUE,
         <<FileBlock(1, <<0, 500, 0>>, "cube", Arr(<<0, 0, 0>>), Arr(<<1000, 1000, 1000>>)),
           FileBlock(2, <<1000, 250, 0>>, "slab", Arr(<<0, 1, 0>>), Arr(<<2000, 500, 1000>>))>>,
         TRUE, <<FileGroup>>)
EmptyObjectFile == File("emptyObject", "object", FALSE, <<>>, FALSE, <<>>)
NullFile == File("null", "null", FALSE, <<>>, FALSE, <<>>)
NumberFile == File("number", "number", FALSE, <<>>, FALSE, <<>>)
StringFile == File("string", "string", FALSE, <<>>, FALSE, <<>>)
UnparsableFile == File("unparsable", "unparsable", FALSE, <<>>, FALSE, <<>>)

Files == {LegacyFile, ProjectFile, EmptyObjectFile, NullFile, NumberFile, StringFile,
          UnparsableFile}

----------------------------------------------------------------------------
\* Spec: an editing session with every handler that commits.  One block at a
\* time is placed on one ground cell; one structure is created at most;
\* commits are explored while history is shorter than MaxDepth.

SessionIds == {1}
SessionHit == GroundHit(<<0, 0, 0>>, GroundNormal)

CanCommit == Len(history) < MaxDepth
CanAdd == CanCommit /\ HasFreshId /\ uuidv4 \in SessionIds

Next ==
    \/ onMouseMove(SessionHit)
    \/ \E dragged \in BOOLEAN :
          /\ (appMode = "BUILD" /\ ~dragged) => CanAdd
          /\ ClickGround(dragged, 0)
    \/ \E i \in 1..Len(pieces), altKey, ctrlKey \in BOOLEAN :
          /\ appMode = "BUILD" => IF altKey \/ ctrlKey THEN CanCommit ELSE CanAdd
          /\ ClickPiece(i, FALSE, altKey, ctrlKey, 0)
    \/ \E mode \in Modes : SetMode(mode, FALSE)
    \/ SetMode("VIEW", TRUE)
    \/ \E confirmed \in BOOLEAN : CanCommit /\ DeleteKey(confirmed)
    \/ \E confirmed \in BOOLEAN : CanCommit /\ DeleteButton(confirmed)
    \/ \E name \in {"", "Portique"} : CanCommit /\ savedGroups = <<>> /\ createGroup(name)
    \/ Undo
    \/ Redo
    \/ \E confirmed \in BOOLEAN : CanCommit /\ ClearAll(confirmed)

Spec == Init /\ [][Next]_vars

\* SpecChain: the same session with the ghost chain kept.
SpecChain == InitChain /\ [][Next]_vars

----------------------------------------------------------------------------
\* SpecLoad: placing, removing, undoing and loading project files.

NextLoad ==
    \/ onMouseMove(SessionHit)
    \/ CanAdd /\ ClickGround(FALSE, 0)
    \/ \E i \in 1..Len(pieces) : CanCommit /\ ClickPiece(i, FALSE, TRUE, FALSE, 0)
    \/ Undo
    \/ Redo
    \/ \E data \in Files : loadTemple(data)

SpecLoad == Init /\ [][NextLoad]_vars

----------------------------------------------------------------------------
\* SpecDeep: a long session.  A block is placed first, then the scene is
\* cleared again and again, with undo and redo at any time; the undo stack
\* reaches its cap and the snapshot that holds the block is the one to watch.

NextDeep ==
    \/ onMouseMove(SessionHit)
    \/ history = <<>> /\ HasFreshId /\ uuidv4 \in SessionIds /\ ClickGround(FALSE, 0)
    \/ \E confirmed \in BOOLEAN : ClearAll(confirmed)
    \/ Undo
    \/ Redo

SpecDeep == InitRun /\ [][NextDeep]_vars

----------------------------------------------------------------------------
\* SpecPlace: pointing, locking the height and switching modes over a loaded
\* project, with the tool changed by the keys and the palette.

PlaceHits ==
    {GroundHit(<<1250, 0, -750>>, GroundNormal)}
        \cup {PieceHit(pieces[i], <<pieces[i].position[1], pieces[i].position[2] + 500,
                                    pieces[i].position[3]>>, n) :
                 i \in 1..Len(pieces), n \in {UpNormal, DownNormal, SideNormal}}

NextPlace ==
    \/ loadTemple(ProjectFile)
    \/ \E hit \in PlaceHits : onMouseMove(hit)
    \/ \E axis \in 1..3 :
          /\ rotation[1] + rotation[2] + rotation[3] < MaxTurns
          /\ KeyRotate(axis)
    \/ updateScale(2, 2000)
    \/ selectSimpleBlock("", "slab")
    \/ \E k \in 1..Len(savedGroups) : selectGroupToPlace(k)
    \/ CancelGroup
    \/ ShiftDown
    \/ ShiftUp
    \/ \E mode \in Modes : SetMode(mode, FALSE)
    \/ SetMode("VIEW", TRUE)

SpecPlace == Init /\ [][NextPlace]_vars

----------------------------------------------------------------------------
\* Properties of the history manager (saveHistory, undo, redo).

Current == HistState(pieces, history, future)

\* C1: the undo stack never holds more than MaxHistory (50) snapshots; a commit
\* on a stack that already holds 50 drops the oldest entry (index 0) and
\* appends the new one; after RunCap (60) consecutive commits exactly 50 undo
\* steps are available and the early states, the one with the block placed
\* first among them, are out of reach of undo.
C1_HistoryCapDropsOldest ==
    [][/\ Len(history') <= MaxHistory
       /\ (lastOp'.commit /\ Len(history) = MaxHistory)
             => history' = Append(Tail(history), pieces)
       /\ run' = RunCap
             => /\ Len(history') = MaxHistory
                /\ \A i \in 1..Len(history') : history'[i] = <<>>]_vars

C1_Witness ==
    /\ run = RunCap
    /\ lastOp.commit
    /\ Len(history) = MaxHistory

\* C2: every commit pushes exactly one snapshot and that snapshot is the
\* collection as it was right before the mutation, on every entry path, the
\* Delete/Backspace key included.
C2_SnapshotIsCurrentPieces ==
    [][lastOp'.commit
         => /\ Len(history') = Len(history) + 1
            /\ Front(history') = history
            /\ Last(history') = pieces]_vars

\* C3: a committed mutation empties the redo stack; right after it redo()
\* changes nothing.
C3_CommitClearsRedo ==
    [][lastOp'.commit
         => /\ future' = <<>>
            /\ redo(HistState(pieces', history', future'))
                 = HistState(pieces', history', future')]_vars

C3_Witness ==
    /\ lastOp.commit
    /\ future = <<>>
    /\ Len(history) >= 2
    /\ redo(Current) = Current

\* C4: after K consecutive commits, the j-th undo (j <= K) makes pieces the
\* collection that preceded the j-th most recent commit, so K undos give back
\* the collection the run started from.
C4_UndoRestoresInReverse ==
    undone \in 1..Len(chain) => pieces = chain[Len(chain) - undone + 1]

\* C5: undo() on an empty undo stack leaves pieces, history and future alone;
\* otherwise the current collection goes to the front of the redo stack, the
\* last undo entry becomes current and exactly that entry leaves the stack.
C5_UndoSemantics ==
    [][lastOp'.op = "undo"
         => IF history = <<>>
            THEN UNCHANGED <<pieces, history, future>>
            ELSE /\ pieces' = history[Len(history)]
                 /\ history' = SubSeq(history, 1, Len(history) - 1)
                 /\ future' = <<pieces>> \o future]_vars

C5_Witness ==
    /\ lastOp.op = "undo"
    /\ Len(future) >= 2
    /\ history # <<>>

\* C6: redo() is the inverse of undo(): on an empty redo stack it changes
\* nothing; with a non-empty undo stack undo then redo gives the state back;
\* with a non-empty redo stack redo then undo gives the state back.
C6_RedoInvertsUndo ==
    /\ future = <<>> => redo(Current) = Current
    /\ history # <<>> => redo(undo(Current)) = Current
    /\ future # <<>> => undo(redo(Current)) = Current

C6_Witness ==
    /\ history # <<>>
    /\ future # <<>>
    /\ lastOp.op = "redo"
    /\ undo(Current) # Current

----------------------------------------------------------------------------
\* Properties of loadTemple.

\* the file the last load read
LoadedFile(data) == data \in Files /\ lastOp'.op = "load" /\ lastOp'.arg = data.name

\* C7: after a successful load both stacks are empty and pieces is replaced:
\* a bare array replaces pieces and leaves savedGroups alone, an object
\* replaces pieces and savedGroups by its fields, the empty list for a
\* missing field.
C7_LoadReplacesAndResets ==
    [][\A data \in Files :
         (LoadedFile(data) /\ data.kind \in {"array", "object"})
           => /\ history' = <<>>
              /\ future' = <<>>
              /\ undo(HistState(pieces', history', future')).pieces = pieces'
              /\ IF data.kind = "array"
                 THEN pieces' = data.pieces /\ savedGroups' = savedGroups
                 ELSE /\ pieces' = IF data.hasPieces THEN data.pieces ELSE <<>>
                      /\ savedGroups' = IF data.hasGroups THEN data.savedGroups
                                        ELSE <<>>]_vars

C7_Witness ==
    /\ lastOp.op = "load"
    /\ lastOp.arg = ProjectFile.name
    /\ pieces = ProjectFile.pieces
    /\ savedGroups = ProjectFile.savedGroups
    /\ history = <<>>
    /\ future = <<>>

\* C8: a load of malformed data (text that does not parse, null, a number, a
\* string) is aborted as a whole: pieces, savedGroups, history and future stay
\* as they were.
C8_MalformedLoadAborted ==
    [][\A data \in Files :
         (LoadedFile(data) /\ data.kind \notin {"array", "object"})
           => UNCHANGED <<pieces, savedGroups, history, future>>]_vars

----------------------------------------------------------------------------
\* Properties of the height lock.

\* C9: once the lock is taken over a pending position of height y0, every
\* pointer move resolves to y = y0 exactly, whatever the hit, the rotation,
\* the scale or the prefab, until the lock is released or the mode leaves
\* BUILD.
C9_LockKeepsHeight ==
    lockY0 # <<>>
      => /\ lockedY = lockY0
         /\ hoverPos # <<>>
         /\ hoverPos[2] = lockY0[1]

C9_Witness ==
    /\ lockY0 # <<>>
    /\ lastOp = Op("onMouseMove", "ground", FALSE)
    /\ hoverPos[2] = lockY0[1]
    /\ hoverPos[2] % 250 # 0
    /\ currentGroup # NoGroup

\* C10: whenever the mode is not BUILD, lockedY and hoverPos are null; a
\* lock appears again only through a new activation over a pending position
\* in BUILD mode.
C10_NoLockOutsideBuild ==
    [][/\ appMode' # "BUILD" => lockedY' = <<>> /\ hoverPos' = <<>>
       /\ (lockedY = <<>> /\ lockedY' # <<>>)
             => /\ lastOp'.op = "lock"
                /\ appMode' = "BUILD"
                /\ hoverPos # <<>>
                /\ lockedY' = <<hoverPos[2]>>]_vars

C10_Witness ==
    /\ appMode # "BUILD"
    /\ lastOp.op = "setAppMode"
    /\ lockedY = <<>>
    /\ hoverPos = <<>>
    /\ lockY0 = <<>>
    /\ savedGroups # <<>>

----------------------------------------------------------------------------
\* SpecTool: pointing over a loaded project with no lock, while the keys, the
\* dimension inputs and the palette change the pending object.

ToolHits ==
    {GroundHit(<<1250, 0, -750>>, GroundNormal)}
        \cup {PieceHit(pieces[i], <<pieces[i].position[1], pieces[i].position[2] + 500,
                                    pieces[i].position[3]>>, n) :
                 i \in 1..Len(pieces), n \in {UpNormal, DownNormal, SideNormal}}

NextTool ==
    \/ loadTemple(ProjectFile)
    \/ \E hit \in ToolHits : onMouseMove(hit)
    \/ \E axis \in 1..3 :
          /\ rotation[axis] < MaxTurns
          /\ KeyRotate(axis)
    \/ updateScale(1, 2000)
    \/ updateScale(2, 1300)
    \/ selectSimpleBlock("", "slab")
    \/ \E k \in 1..Len(savedGroups) : selectGroupToPlace(k)
    \/ CancelGroup

SpecTool == Init /\ [][NextTool]_vars

----------------------------------------------------------------------------
\* Properties of the contact resolver.

\* the envelope of the pending object, as onMouseMove computes it
PendingEnvelope == Envelope(currentGroup, currentShape, currentScale, rotation)

\* this step is a pointer move that onMouseMove resolves
Resolves ==
    /\ lastOp'.op = "onMouseMove"
    /\ appMode = "BUILD"
    /\ ~(currentGroup # NoGroup /\ currentGroup.blocks = <<>>)

IsTilted == isRotated90(rotation[1]) \/ isRotated90(rotation[3])

\* C11: on a ground hit with no lock the resolved y is h / 2 rounded to the
\* nearest multiple of 0.25, h the physical height of the pending object (a
\* unit cube gives 0.5, the default slab 0.25); the epsilon is not applied.
C11_GroundHeight ==
    [][(Resolves /\ lastOp'.arg = "ground" /\ lockedY = <<>>)
         => LET h == PendingEnvelope.myHeight
                y == hoverPos'[2]
            IN  /\ hoverPos' # <<>>
                /\ y % 250 = 0
                /\ 2 * y - h <= 250
                /\ h - 2 * y <= 250
                /\ (currentGroup = NoGroup /\ currentScale = <<1000, 1000, 1000>>)
                      => y = 500
                /\ (currentGroup = NoGroup /\ currentScale = <<1000, 500, 1000>>
                      /\ ~IsTilted)
                      => y = 250]_vars

C11_Witness ==
    /\ lastOp = Op("onMouseMove", "ground", FALSE)
    /\ lockedY = <<>>
    /\ currentGroup = NoGroup
    /\ currentScale[2] = 1300
    /\ ~IsTilted
    /\ hoverPos # <<>>
    /\ hoverPos[2] = 750

\* C12: on a hit with an upward normal on a placed block or group at impact
\* height Y0, with no lock, the resolved y is Y0 + h / 2 - 0.002 exactly and
\* is not snapped to the 0.25 grid.
C12_TopStacking ==
    [][(Resolves /\ lastOp'.arg = "top" /\ lockedY = <<>>)
         => LET h == PendingEnvelope.myHeight
            IN  /\ hoverPos' # <<>>
                /\ \E hit \in ToolHits :
                      /\ ~hit.ground
                      /\ hit.normal[2] > 500
                      /\ 2 * hoverPos'[2] = 2 * hit.point[2] + h - 2 * Epsilon
                /\ \A hit \in ToolHits :
                      (~hit.ground /\ hit.normal[2] > 500)
                        => 2 * resolveContact(hit, PendingEnvelope, <<>>)[2]
                             = 2 * hit.point[2] + h - 2 * Epsilon]_vars

C12_Witness ==
    /\ lastOp = Op("onMouseMove", "top", FALSE)
    /\ lockedY = <<>>
    /\ currentGroup # NoGroup
    /\ hoverPos # <<>>
    /\ hoverPos[2] % 250 # 0

\* C13: for a single pending block of scale (sx, sy, sz) the footprint is
\* {width: sz, depth: sx} after an odd number of quarter turns about Y and
\* {width: sx, depth: sz} otherwise, whatever the rotation about X or Z.
C13_FootprintSwap ==
    [][(Resolves /\ currentGroup = NoGroup)
         => guideSize' = IF isRotated90(rotation[2])
                         THEN [x |-> currentScale[3], z |-> currentScale[1]]
                         ELSE [x |-> currentScale[1], z |-> currentScale[3]]]_vars

C13_Witness ==
    /\ lastOp.op = "onMouseMove"
    /\ currentGroup = NoGroup
    /\ currentScale = <<2000, 1000, 1000>>
    /\ rotation = <<1, 1, 0>>
    /\ guideSize = [x |-> 1000, z |-> 2000]

\* C20: for a pending prefab, height and footprint are those the rules for a
\* single block give for the pivot block (index 0): baseHeight * scale.y, or
\* scale.x when tilted about X or Z, and {scale.x, scale.z} with width and
\* depth swapped after an odd number of quarter turns about Y.
C20_PrefabEnvelopeIsPivots ==
    [][(Resolves /\ currentGroup # NoGroup)
         => LET pivot == currentGroup.blocks[1]
                single == Envelope(NoGroup, pivot.shape, getScale(pivot.scale), rotation)
            IN  /\ PendingEnvelope.myHeight = single.myHeight
                /\ guideSize' = [x |-> single.myWidthX, z |-> single.myDepthZ]]_vars

----------------------------------------------------------------------------
\* SpecGroup: selecting and grouping over a loaded tower (a slab on the
\* ground, a slab on it, a tall block higher up) and a placed structure, with
\* undo and redo; one structure is created at most.

GroupFile ==
    File("tower", "object", TRUE,
         <<FileBlock(1, <<0, 250, 0>>, "slab", Arr(<<0, 0, 0>>), Arr(<<1000, 500, 1000>>)),
           FileBlock(2, <<0, 2994, 0>>, "cube", Arr(<<0, 1, 0>>), Arr(<<1000, 2000, 1000>>)),
           FileBlock(3, <<0, 748, 0>>, "slab", Num(1), Undef),
           NewGroupPiece(4, <<2000, 500, 0>>, <<0, 0, 0>>, FileGroup)>>,
         TRUE, <<FileGroup>>)

\* one structure is created at most; attempts that createGroup turns down are
\* explored at any time
CanGroup(name) ==
    \/ savedGroups = <<FileGroup>>
    \/ name = ""
    \/ \E k \in 1..Len(pieces) : pieces[k].isGroup /\ pieces[k].id \in Range(selectedIds)

NextGroup ==
    \/ pieces = <<>> /\ history = <<>> /\ loadTemple(GroupFile)
    \/ \E mode \in {"BUILD", "SELECT"} : SetMode(mode, FALSE)
    \/ \E i \in 1..Len(pieces) :
          appMode = "SELECT" /\ ClickPiece(i, FALSE, FALSE, FALSE, 0)
    \/ ClickGround(FALSE, 0)
    \/ \E name \in {"", "Portique"} : CanGroup(name) /\ createGroup(name)
    \/ Undo
    \/ Redo

SpecGroup == Init /\ [][NextGroup]_vars

----------------------------------------------------------------------------
\* Properties of createGroup.

\* the placed entities the selection matches, as createGroup filters them
SelectedPieces == Filter(pieces, Range(selectedIds))

\* C14: every structure createGroup adds has at least one block; block 0 is
\* the pivot, a selected block of minimum Y, with relative position (0,0,0);
\* every other relative position is the block's position minus the pivot's,
\* so no relative Y is negative.  When no placed entity matches the selection
\* createGroup creates nothing and leaves pieces, savedGroups, history and
\* future alone.
C14_PivotAndEmptyInput ==
    [][lastOp'.op = "createGroup"
         => IF SelectedPieces = <<>>
            THEN UNCHANGED <<pieces, savedGroups, history, future>>
            ELSE lastOp'.commit
                   => LET blocks == Last(savedGroups').blocks
                      IN  /\ Len(blocks) = Len(SelectedPieces)
                          /\ blocks[1].relPos = <<0, 0, 0>>
                          /\ \E i \in 1..Len(SelectedPieces) :
                                /\ \A j \in 1..Len(SelectedPieces) :
                                      SelectedPieces[i].position[2]
                                        <= SelectedPieces[j].position[2]
                                /\ \A k \in 1..Len(blocks) :
                                      \E j \in 1..Len(SelectedPieces) :
                                        \A c \in 1..3 :
                                          blocks[k].relPos[c]
                                            = SelectedPieces[j].position[c]
                                                - SelectedPieces[i].position[c]
                          /\ \A k \in 1..Len(blocks) : blocks[k].relPos[2] >= 0]_vars

\* C15: creating a structure from N plain blocks and instantiating it at the
\* pivot's original position with rotation (0,0,0) puts the N sub-blocks at
\* the N original positions, each with the shape, material, rotation and
\* scale of the original block.
C15_GroupRoundTrip ==
    [][(lastOp'.op = "createGroup" /\ lastOp'.commit /\ SelectedPieces # <<>>)
         => LET originals == SortByY(SelectedPieces)
                group == Last(savedGroups')
                placed == NewGroupPiece(0, originals[1].position, <<0, 0, 0>>, group)
            IN  /\ Len(group.blocks) = Len(originals)
                /\ \A k \in 1..Len(originals) :
                      /\ subBlockWorld(placed, k)
                           = [x |-> originals[k].position[1],
                              y |-> ToDouble(originals[k].position[2]),
                              z |-> originals[k].position[3]]
                      /\ group.blocks[k].shape = originals[k].shape
                      /\ group.blocks[k].type = originals[k].type
                      /\ group.blocks[k].rotation = originals[k].rotation
                      /\ group.blocks[k].scale = originals[k].scale]_vars

\* C16: createGroup on a selection that holds a placed group is rejected:
\* pieces, savedGroups, history, future, the selection and the mode stay.
C16_NestedGroupRejected ==
    [][(lastOp'.op = "createGroup"
          /\ \E k \in 1..Len(SelectedPieces) : SelectedPieces[k].isGroup)
         => UNCHANGED <<pieces, savedGroups, history, future, selectedIds, appMode>>]_vars

C16_Witness ==
    /\ lastOp = Op("createGroup", "Portique", FALSE)
    /\ \E k \in 1..Len(SelectedPieces) : SelectedPieces[k].isGroup
    /\ \E k \in 1..Len(SelectedPieces) : ~SelectedPieces[k].isGroup
    /\ appMode = "SELECT"
    /\ future # <<>>

\* C17: a successful createGroup is one undo step: it pushes one snapshot,
\* removes the selected blocks and appends one structure; one undo gives the
\* collection back and the structure stays.  undo and redo never change
\* savedGroups.
C17_GroupIsOneUndoStep ==
    [][/\ (lastOp'.op = "createGroup" /\ lastOp'.commit)
            => /\ history' = Append(history, pieces)
               /\ IdsOf(pieces') = IdsOf(pieces) \ Range(selectedIds)
               /\ Len(pieces') = Cardinality(IdsOf(pieces'))
               /\ \A k \in 1..Len(pieces') :
                     \E j \in 1..Len(pieces) : pieces'[k] = pieces[j]
               /\ Len(savedGroups') = Len(savedGroups) + 1
               /\ SubSeq(savedGroups', 1, Len(savedGroups)) = savedGroups
               /\ undo(HistState(pieces', history', future')).pieces = pieces
       /\ lastOp'.op \in {"undo", "redo"} => savedGroups' = savedGroups]_vars

C17_Witness ==
    /\ lastOp.op = "undo"
    /\ Len(savedGroups) = 2
    /\ Len(Last(savedGroups).blocks) = 2
    /\ pieces = GroupFile.pieces
    /\ future # <<>>

----------------------------------------------------------------------------
\* SpecPointer: every pointer event in every mode over a loaded project: moves
\* over the ground and over pieces, clicks with and without a drag, with the
\* left and the right button, with and without Alt and Ctrl.

Buttons == {0, 2}

CanGrab == Len(history) < MaxDepth - 1 /\ future = <<>>
CanPlace == CanGrab /\ HasFreshId /\ uuidv4 = 3

PointerHits ==
    {GroundHit(<<1250, 0, -750>>, GroundNormal)}
        \cup {PieceHit(pieces[i], <<pieces[i].position[1], pieces[i].position[2] + 500,
                                    pieces[i].position[3]>>, UpNormal) :
                 i \in 1..Min(1, Len(pieces))}

NextPointer ==
    \/ pieces = <<>> /\ history = <<>> /\ loadTemple(ProjectFile)
    \/ \E hit \in PointerHits : onMouseMove(hit)
    \/ \E dragged \in BOOLEAN, button \in Buttons :
          /\ (appMode = "BUILD" /\ ~dragged /\ button = 0) => CanPlace
          /\ ClickGround(dragged, button)
    \/ \E i \in 1..Len(pieces), dragged, altKey, ctrlKey \in BOOLEAN, button \in Buttons :
          /\ (appMode = "BUILD" /\ ~dragged)
                => IF altKey \/ ctrlKey THEN CanGrab ELSE CanPlace
          /\ ClickPiece(i, dragged, altKey, ctrlKey, button)
    \/ \E mode \in Modes : SetMode(mode, FALSE)
    \/ Undo
    \/ Redo

SpecPointer == Init /\ [][NextPointer]_vars

----------------------------------------------------------------------------
\* Properties of the mode gate.

\* what a pointer event over the canvas ends in
PointerOps ==
    {"onMouseMove", "click", "clearSelection", "handleSelect", "addBlock",
     "onRemove", "handleGrabBlock"}

\* C18: while the mode is SELECT or VIEW, a pointer move leaves the pending
\* position unset, and no pointer event (move, click on the ground, click on
\* a piece, with or without Alt and Ctrl) changes pieces, history or future.
C18_NoPlacementOutsideBuild ==
    [][(appMode \in {"SELECT", "VIEW"} /\ lastOp'.op \in PointerOps)
          => /\ pieces' = pieces
             /\ history' = history
             /\ future' = future
             /\ hoverPos' = <<>>
             /\ lastOp'.op \notin {"addBlock", "onRemove", "handleGrabBlock"}]_vars

\* a click on a piece was ignored in VIEW, and a click selected a piece in
\* SELECT, with blocks in the scene and both stacks in use
C18_Witness ==
    /\ appMode = "VIEW"
    /\ lastOp = Op("click", "piece", FALSE)
    /\ pieces # <<>>
    /\ history # <<>>
    /\ future # <<>>

----------------------------------------------------------------------------
\* SpecNorm: a project file whose pieces carry every kind of rotation and
\* scale value is loaded, and pieces are picked up with Ctrl and a click,
\* which stores getRotation and getScale of the piece's fields in the tool.

NormFile ==
    File("norm", "object", TRUE,
         <<FileBlock(1, <<0, 500, 0>>, "cube", Arr(<<0, 1, 0>>), Arr(<<2000, 1000, 1000>>)),
           FileBlock(2, <<1000, 500, 0>>, "cube", Num(1), Undef),
           FileBlock(3, <<2000, 500, 0>>, "cube", Null, Null),
           FileBlock(4, <<3000, 500, 0>>, "cube", Arr(<<0, 1>>), Arr(<<2000>>)),
           FileBlock(5, <<4000, 500, 0>>, "cube", Str, Str)>>,
         FALSE, <<>>)

NextNorm ==
    \/ pieces = <<>> /\ history = <<>> /\ loadTemple(NormFile)
    \/ \E i \in 1..Len(pieces) : CanCommit /\ ClickPiece(i, FALSE, FALSE, TRUE, 0)
    \/ Undo
    \/ Redo

SpecNorm == Init /\ [][NextNorm]_vars

----------------------------------------------------------------------------
\* Properties of the normalizers (getRotation, getScale).

\* C19: the normalizers always return a 3-vector: getRotation maps a number s
\* to [0, s, 0], an array of three to itself and everything else (undefined,
\* null, a non-numeric value, an array of another length) to [0,0,0]; getScale
\* maps an array of three to itself and every missing or invalid value to
\* [1,1,1].  Stated on the tool a picked-up piece leaves behind.
C19_NormalizersCanonical ==
    [][lastOp'.op = "handleGrabBlock"
          => \E i \in 1..Len(pieces) :
                LET rot == pieces[i].rotation
                    scl == pieces[i].scale
                IN  /\ pieces[i].id \notin IdsOf(pieces')
                    /\ Len(rotation') = 3
                    /\ Len(currentScale') = 3
                    /\ rotation' = IF rot.t = "num" THEN <<0, rot.n, 0>>
                                   ELSE IF rot.t = "arr" /\ Len(rot.a) = 3 THEN rot.a
                                   ELSE <<0, 0, 0>>
                    /\ currentScale' = IF scl.t = "arr" /\ Len(scl.a) = 3 THEN scl.a
                                       ELSE <<1000, 1000, 1000>>]_vars

----------------------------------------------------------------------------
\* SpecStale: the pointer rests on one ground cell while the tool is changed
\* with the keys, the palette and the dimension inputs, and blocks are
\* committed with a click.

NextStale ==
    \/ onMouseMove(SessionHit)
    \/ \E axis \in 1..3 : rotation[axis] < MaxTurns /\ KeyRotate(axis)
    \/ selectSimpleBlock("", "slab")
    \/ updateScale(2, 2000)
    \/ CanAdd /\ ClickGround(FALSE, 0)
    \/ Undo
    \/ Redo

SpecStale == Init /\ [][NextStale]_vars

----------------------------------------------------------------------------
\* Properties of the order of pointer moves, tool changes and commits.

\* C21: a commit stores the position that contact resolution gives for the
\* most recent hit and the tool (rotation, scale, shape, prefab) committed with
\* it; no tool change after the last resolution leaves a position computed for
\* the earlier tool in the committed piece.
C21_CommitUsesCurrentTool ==
    [][(lastOp'.op = "addBlock" /\ lastOp'.commit)
          => Last(pieces').position =
                resolveContact(SessionHit,
                               Envelope(currentGroup, currentShape, currentScale, rotation),
                               lockedY)]_vars

----------------------------------------------------------------------------
\* SpecLeave: SpecPlace with the pointer leaving every surface.

\* The pointer moves off the ground plane and off every piece (over the sky
\* or over the panels).  The ground mesh and Piece register onPointerMove and
\* onClick only, and Canvas no onPointerMissed: no handler runs.
PointerOut ==
    /\ UNCHANGED <<appVars, sceneVars, keysPieces>>
    /\ GhostNone("pointerOut", "none")

NextLeave ==
    \/ NextPlace
    \/ PointerOut

SpecLeave == Init /\ [][NextLeave]_vars

----------------------------------------------------------------------------
\* Properties of the pending position when nothing is hit.

\* C22: when the pointer is over no surface there is no pending position; one
\* resolved from an earlier hit does not persist after the pointer has left
\* every surface.
C22_NoPendingWithoutHit ==
    lastOp.op = "pointerOut" => hoverPos = <<>>

----------------------------------------------------------------------------
\* Properties of the horizontal and vertical coordinates of a resolution.

\* C23: the resolved x and z are multiples of 0.5, nearest to
\* hitPoint + normal * footprint / 2 without the lock and to hitPoint itself
\* with the lock (coordinates and footprint in thousandths, so the ideal
\* value times 2000 is 2000 * point + normal * size).
C23_HorizontalSnap ==
    [][Resolves
          => LET hit == lastHit'
                 env == PendingEnvelope
                 idealX == IF lockedY # <<>> THEN 2000 * hit.point[1]
                           ELSE 2000 * hit.point[1] + hit.normal[1] * env.myWidthX
                 idealZ == IF lockedY # <<>> THEN 2000 * hit.point[3]
                           ELSE 2000 * hit.point[3] + hit.normal[3] * env.myDepthZ
             IN  /\ hoverPos'[1] % 500 = 0
                 /\ hoverPos'[3] % 500 = 0
                 /\ 2000 * hoverPos'[1] - 500000 <= idealX
                 /\ idealX <= 2000 * hoverPos'[1] + 500000
                 /\ 2000 * hoverPos'[3] - 500000 <= idealZ
                 /\ idealZ <= 2000 * hoverPos'[3] + 500000]_vars

\* resolved with the lock on, from a hit whose normal has a horizontal part
\* and whose point is off the half-unit grid
C23_Witness ==
    /\ lastOp.op = "onMouseMove"
    /\ lockedY # <<>>
    /\ hoverPos # <<>>
    /\ lastHit # NoHit
    /\ lastHit.normal[3] # 0
    /\ lastHit.point[3] % 500 # 0

----------------------------------------------------------------------------
\* SpecSide: pointing at the faces of the pieces of a loaded tower (blocks
\* with and without a scale field, off the grid, and a placed structure)
\* while the pending block changes.

NextSide ==
    \/ loadTemple(GroupFile)
    \/ \E hit \in ToolHits : onMouseMove(hit)
    \/ \E axis \in 1..3 : rotation[axis] < MaxTurns /\ KeyRotate(axis)
    \/ updateScale(2, 1300)
    \/ selectSimpleBlock("", "slab")

SpecSide == Init /\ [][NextSide]_vars

\* C24: for a hit on a placed entity whose normal is not upward, y is
\* contactY + myHeight / 2 rounded to the nearest 0.25, with contactY the
\* target's centre height under a downward normal and, on a side face, the
\* target's centre height less half its height, the height being
\* heightBase * scale.y of the target block whatever its rotation, and 1 for a
\* structure; against the side of a target of equal height on the grid the
\* pending object gets the target's own y.
C24_SideAndBottomHeight ==
    [][(Resolves /\ lastOp'.arg \in {"bottom", "side"})
          => \E i \in 1..Len(pieces) :
                LET target == pieces[i]
                    hit == lastHit'
                    targetHeight == IF target.isGroup THEN 1000
                                    ELSE (heightBase(target.shape)
                                            * getScale(target.scale)[2]) \div 1000
                    twiceContactY == IF hit.normal[2] < -500 THEN 2 * target.position[2]
                                     ELSE 2 * target.position[2] - targetHeight
                    twiceY == twiceContactY + PendingEnvelope.myHeight
                IN  /\ target.position = hit.tInfo.position
                    /\ hoverPos'[2] % 250 = 0
                    /\ 2 * hoverPos'[2] - 250 <= twiceY
                    /\ twiceY <= 2 * hoverPos'[2] + 250
                    /\ (/\ lastOp'.arg = "side"
                        /\ PendingEnvelope.myHeight = targetHeight
                        /\ target.position[2] % 250 = 0)
                          => hoverPos'[2] = target.position[2]]_vars

\* resolved against the side of a placed structure, and against the side of a
\* block whose own height differs from the pending one's
C24_Witness ==
    /\ lastOp = Op("onMouseMove", "side", FALSE)
    /\ hoverPos # <<>>
    /\ lastHit # NoHit
    /\ lastHit.tInfo.isGroup
    /\ currentScale[2] = 1300

----------------------------------------------------------------------------
\* SpecTilt: the pending block is turned up to a half turn about each axis,
\* widened, changed to a slab or to the shape of a picked-up piece the
\* catalogue does not know, and pointed at the ground and at a top face.

TiltFile ==
    File("tilt", "object", TRUE,
         <<FileBlock(1, <<0, 500, 0>>, "cube", Arr(<<0, 0, 0>>), Arr(<<1000, 1000, 1000>>)),
           FileBlock(2, <<2000, 1000, 0>>, "obelisk", Arr(<<0, 0, 0>>),
                     Arr(<<1000, 2000, 1000>>))>>,
         FALSE, <<>>)

TiltHits ==
    {GroundHit(<<1250, 0, -750>>, GroundNormal)}
        \cup {PieceHit(pieces[i], <<pieces[i].position[1], 1000, pieces[i].position[3]>>,
                       UpNormal) : i \in 1..Min(1, Len(pieces))}

NextTilt ==
    \/ pieces = <<>> /\ history = <<>> /\ loadTemple(TiltFile)
    \/ \E hit \in TiltHits : onMouseMove(hit)
    \/ \E axis \in 1..3 : rotation[axis] < MaxTurns + 1 /\ KeyRotate(axis)
    \/ updateScale(1, 2000)
    \/ selectSimpleBlock("", "slab")
    \/ history = <<>> /\ Len(pieces) = 2 /\ ClickPiece(2, FALSE, FALSE, TRUE, 0)

SpecTilt == Init /\ [][NextTilt]_vars

\* C25: the height of a single pending block is heightBase(shape) * scale.y
\* (heightBase 1 for a shape the catalogue does not know) unless the number of
\* quarter turns about X or about Z is odd, and scale.x then, also when both
\* are odd.  Read off a resolution on a top face, which is the contact height
\* plus half that height less 0.002.
C25_PendingHeight ==
    [][(Resolves /\ currentGroup = NoGroup /\ lastOp'.arg = "top")
          => LET tilted == rotation[1] % 2 = 1 \/ rotation[3] % 2 = 1
                 base == IF currentShape \in {"cube", "slab", "column", "slope"}
                         THEN SHAPES[currentShape].heightBase ELSE 1000
                 height == IF tilted THEN currentScale[1]
                           ELSE (base * currentScale[2]) \div 1000
             IN  2 * (hoverPos'[2] + Epsilon) = 2 * lastHit'.point[2] + height]_vars

\* resolved on a top face with a widened block after two quarter turns about
\* X and one about Z
C25_Witness ==
    /\ lastOp = Op("onMouseMove", "top", FALSE)
    /\ hoverPos # <<>>
    /\ currentGroup = NoGroup
    /\ rotation[1] = 2
    /\ rotation[3] = 1
    /\ currentScale[1] = 2000

----------------------------------------------------------------------------
\* SpecSort: blocks of a loaded project, three of them at the same height,
\* are selected in any click order and made into a structure.

SortFile ==
    File("row", "object", TRUE,
         <<FileBlock(1, <<0, 500, 0>>, "cube", Arr(<<0, 0, 0>>), Arr(<<1000, 1000, 1000>>)),
           FileBlock(2, <<1000, 500, 0>>, "column", Num(1), Undef),
           FileBlock(3, <<0, 250, 1000>>, "slab", Arr(<<0, 1, 0>>), Arr(<<1000, 500, 1000>>)),
           FileBlock(4, <<2000, 500, 0>>, "slope", Arr(<<1, 0, 0>>), Arr(<<1000, 1000, 2000>>)),
           FileBlock(5, <<1000, 250, 1000>>, "slab", Undef, Arr(<<2000, 500, 1000>>))>>,
         FALSE, <<>>)

NextSort ==
    \/ pieces = <<>> /\ history = <<>> /\ loadTemple(SortFile)
    \/ \E mode \in {"BUILD", "SELECT"} : SetMode(mode, FALSE)
    \/ \E i \in 1..Len(pieces) :
          appMode = "SELECT" /\ ClickPiece(i, FALSE, FALSE, FALSE, 0)
    \/ \E name \in {"", "Portique"} : savedGroups = <<>> /\ createGroup(name)
    \/ Undo

SpecSort == Init /\ [][NextSort]_vars

\* C26: the blocks of a new structure are the selected pieces in ascending
\* order of height, pieces of equal height in the order they have in pieces
\* (whatever the order of the clicks that selected them); so the pivot is the
\* first lowest selected piece of pieces; type, shape, rotation and scale of
\* each are copied unchanged and relPos is taken from the pivot.
C26_StableSortByHeight ==
    [][(lastOp'.op = "createGroup" /\ lastOp'.commit)
          => LET sel == SelectedPieces
                 n == Len(sel)
                 blocks == Last(savedGroups').blocks
             IN  /\ Len(blocks) = n
                 /\ \E f \in [1..n -> 1..n] :
                       /\ \A k, l \in 1..n :
                             k < l => \/ sel[f[k]].position[2] < sel[f[l]].position[2]
                                      \/ /\ sel[f[k]].position[2] = sel[f[l]].position[2]
                                         /\ f[k] < f[l]
                       /\ \A k \in 1..n :
                             /\ blocks[k].type = sel[f[k]].type
                             /\ blocks[k].shape = sel[f[k]].shape
                             /\ blocks[k].rotation = sel[f[k]].rotation
                             /\ blocks[k].scale = sel[f[k]].scale
                             /\ blocks[k].relPos[1]
                                   = sel[f[k]].position[1] - sel[f[1]].position[1]
                             /\ blocks[k].relPos[2]
                                   = sel[f[k]].position[2] - sel[f[1]].position[2]
                             /\ blocks[k].relPos[3]
                                   = sel[f[k]].position[3] - sel[f[1]].position[3]]_vars

\* a structure made of the whole row: two lowest blocks, the pivot being the
\* one placed first, then three blocks of equal height in placement order,
\* with a legacy rotation and a missing scale kept as they were
C26_Witness ==
    /\ lastOp = Op("createGroup", "Portique", TRUE)
    /\ pieces = <<>>
    /\ Len(savedGroups) = 1
    /\ Len(savedGroups[1].blocks) = 5
    /\ savedGroups[1].blocks[2].relPos = <<1000, 0, 0>>
    /\ savedGroups[1].blocks[4].rotation = Num(1)
    /\ savedGroups[1].blocks[4].scale = Undef

----------------------------------------------------------------------------
\* Invariants of the stacks, the selection and the lock.

\* C27: the undo and redo stacks together never hold more than 50 snapshots;
\* undo and redo move one snapshot from one to the other, so redo, which
\* pushes without the cap, cannot take the undo stack past 50.
C27_StacksWithinCap ==
    Len(history) + Len(future) <= MaxHistory

\* redo has just filled the undo stack to the cap
C27_Witness ==
    /\ lastOp.op = "redo"
    /\ Len(history) = MaxHistory
    /\ future = <<>>
    /\ run = 0

\* C28: a commit-type action (addBlock, Alt+click remove, grab,
\* deleteSelection, createGroup, clear-all) that leaves pieces as it was also
\* leaves the undo stack and the redo stack as they were.
C28_NoOpKeepsStacks ==
    [][(/\ lastOp'.op \in {"addBlock", "onRemove", "handleGrabBlock",
                           "deleteSelection", "createGroup", "clearAll"}
        /\ pieces' = pieces)
          => history' = history /\ future' = future]_vars

\* C29: every id in selectedIds is the id of a piece in pieces, in every
\* reachable state.
C29_SelectionWithinPieces ==
    Range(selectedIds) \subseteq IdsOf(pieces)

----------------------------------------------------------------------------
\* SpecLock: blocks are placed on the ground and on one another while the
\* height lock is taken and released and the mode is switched.

CanStack == HasFreshId /\ Len(pieces) < 2

LockHits ==
    {GroundHit(<<1250, 0, -750>>, GroundNormal)}
        \cup {PieceHit(pieces[i], <<pieces[i].position[1], pieces[i].position[2] + 500,
                                    pieces[i].position[3]>>, UpNormal) :
                 i \in 1..Len(pieces)}

NextLock ==
    \/ \E hit \in LockHits : onMouseMove(hit)
    \/ ShiftDown
    \/ ShiftUp
    \/ \E mode \in Modes : SetMode(mode, FALSE)
    \/ appMode = "BUILD" /\ CanStack /\ ClickGround(FALSE, 0)
    \/ \E i \in 1..Len(pieces) :
          appMode = "BUILD" /\ CanStack /\ ClickPiece(i, FALSE, FALSE, FALSE, 0)

SpecLock == Init /\ [][NextLock]_vars

\* C30: whenever the height lock is active the mode is BUILD and there is a
\* pending position whose height is the locked one; so a piece committed
\* while the lock is active is stored at the locked height, and the lock key
\* pressed with no pending position does not activate the lock.
C30_LockImpliesPendingAtHeight ==
    /\ [](lockedY # <<>>
            => appMode = "BUILD" /\ hoverPos # <<>> /\ hoverPos[2] = lockedY[1])
    /\ [][/\ (lastOp'.op = "addBlock" /\ lastOp'.commit /\ lockedY # <<>>)
              => Last(pieces').position[2] = lockedY[1]
          /\ (lastOp'.op = "lock" /\ hoverPos = <<>>) => lockedY' = <<>>]_vars

\* a block committed on the ground at a height locked on top of another block
C30_Witness ==
    /\ lastOp = Op("addBlock", "ground", TRUE)
    /\ lockedY # <<>>
    /\ lastHit # NoHit
    /\ lastHit.ground
    /\ Len(pieces) = 2
    /\ pieces[2].position[2] = lockedY[1]
    /\ lockedY[1] > pieces[1].position[2]

====
